---- MODULE Spec2Model ----
(***************************************************************************)
(* The merge engine of src/src/mergedata.py: _extend, _replace and the     *)
(* driver mergedata, over a heap of Python objects.                        *)
(*                                                                         *)
(* Python objects have identity: _replace assigns into its left operand,   *)
(* _extend installs the right operand's subtrees without copying, and      *)
(* copy.deepcopy / right[:] allocate.  The heap is a sequence of objects,  *)
(* an address is an index into it, and allocation appends.                 *)
(***************************************************************************)
EXTENDS Integers, Sequences, FiniteSets, TLC

\* Bound: the number of nodes (scalars and containers) in all the arguments
\* of one call together.
MaxNodes == 4

\* The keys a dict may hold, in the order the model iterates them.  Results
\* do not depend on a dict's iteration order; only which accumulator cells
\* _replace has already written when it raises does.
KeyOrder == <<"a", "b">>

NKeys == Len(KeyOrder)

\* The integer scalars of the inputs.  The code tells scalars apart only by
\* ==, by `is None` and by what they lack (get, keys, item assignment), so
\* two ints and None stand for the scalars.
Ints == {1, 2}

(***************************************************************************)
(* Values and objects.                                                     *)
(***************************************************************************)
\* A value is a scalar (an int or None) or a reference to a heap object.
IntV(n) == [t |-> "int", n |-> n]

NoneV == [t |-> "none", n |-> 0]

Ref(a) == [t |-> "ref", n |-> a]

\* The entry of a dict for a key it does not hold.
Absent == [t |-> "absent", n |-> 0]

\* An object is a dict (e[k] is the value at KeyOrder[k], or Absent), a list
\* or a tuple (e is its elements).
Obj(cls, e) == [cls |-> cls, e |-> e]

EmptyDict == Obj("dict", [k \in 1..NKeys |-> Absent])

IsRef(v) == v.t = "ref"

ClassOf(h, v) == IF IsRef(v) THEN h[v.n].cls ELSE v.t

\* isinstance(v, (list, tuple))
IsSeq(h, v) == ClassOf(h, v) \in {"list", "tuple"}

\* hasattr(v, 'get') and hasattr(v, 'keys'): of the values here, a dict.
IsDict(h, v) == ClassOf(h, v) = "dict"

\* The elements of a list or tuple.
Elems(h, v) == h[v.n].e

\* key in d, d[key]
HasKey(h, d, k) == h[d.n].e[k] # Absent

\* len() of a container.
Size(h, v) ==
  IF IsDict(h, v) THEN Cardinality({k \in 1..NKeys : HasKey(h, v, k)})
  ELSE Len(Elems(h, v))

\* Seeded fault: `if right is None` in the place of `if not right`.
Falsy_NoneOnly(h, v) == v = NoneV

\* not v: None and the empty dict, list and tuple are falsy.
Falsy(h, v) == IF IsRef(v) THEN Size(h, v) = 0 ELSE v = NoneV

(***************************************************************************)
(* Structural values: Python's == compares trees, not addresses.           *)
(***************************************************************************)
Leaf(cls, n) == [cls |-> cls, n |-> n, e |-> <<>>]

AbsentT == Leaf("absent", 0)

NoneT == Leaf("none", 0)

Node(cls, e) == [cls |-> cls, n |-> 0, e |-> e]

RECURSIVE Tree(_, _)
\* The tree a value denotes in heap h.
Tree(h, v) ==
  IF IsRef(v)
  THEN Node(h[v.n].cls, [i \in 1..Len(h[v.n].e) |-> Tree(h, h[v.n].e[i])])
  ELSE Leaf(v.t, v.n)

\* x == y
PyEq(h, x, y) == Tree(h, x) = Tree(h, y)

\* val in merged, for a list of values.
In(h, val, merged) == \E i \in 1..Len(merged) : PyEq(h, val, merged[i])

RECURSIVE Reach(_, _)
\* The addresses of the objects reachable from a value.
Reach(h, v) ==
  IF IsRef(v)
  THEN {v.n} \cup UNION {Reach(h, h[v.n].e[i]) : i \in 1..Len(h[v.n].e)}
  ELSE {}

(***************************************************************************)
(* The outcome of a function: the heap it leaves, the value it returns,    *)
(* and the exception it raises ("" for none).                              *)
(***************************************************************************)
Res(h, v, err) == [h |-> h, v |-> v, err |-> err]

\* Allocation: the new object's address is the next index of the heap.
New(h, obj) == Res(Append(h, obj), Ref(Len(h) + 1), "")

\* d[k] = v, in place.
SetItem(h, d, k, v) == [h EXCEPT ![d.n].e[k] = v]

(***************************************************************************)
(* _extend (mergedata.py:13-44)                                            *)
(***************************************************************************)
\* Seeded fault: the membership test left out.
AppendOne_Always(h, merged, val, deduplicate) == Append(merged, val)

\* if not (deduplicate and val in merged): merged.append(val)
AppendOne(h, merged, val, deduplicate) ==
  IF ~(deduplicate /\ In(h, val, merged)) THEN Append(merged, val) ELSE merged

RECURSIVE AppendAll(_, _, _, _)
\* for val in right: ...append(val)
AppendAll(h, merged, vals, deduplicate) ==
  IF vals = <<>> THEN merged
  ELSE AppendAll(h, AppendOne(h, merged, Head(vals), deduplicate),
                 Tail(vals), deduplicate)

\* Seeded fault: the tuple not restored, a list returned for a tuple.
ExtendSeq_NoRestore(h, left, right, deduplicate) ==
  LET merged == IF IsSeq(h, right)
                THEN AppendAll(h, Elems(h, left), Elems(h, right), deduplicate)
                ELSE AppendOne(h, Elems(h, left), right, deduplicate)
  IN New(h, Obj("list", merged))

\* The list branch: merged = left[:] (list(left[:]) for a tuple), right's
\* elements or right itself appended, the tuple restored.  The result is a
\* new object of left's class; its elements are the operands' own values.
ExtendSeq(h, left, right, deduplicate) ==
  LET merged == IF IsSeq(h, right)
                THEN AppendAll(h, Elems(h, left), Elems(h, right), deduplicate)
                ELSE AppendOne(h, Elems(h, left), right, deduplicate)
  IN New(h, Obj(ClassOf(h, left), merged))

\* Seeded fault: the leaf branch returns left.
ExtendLeaf_KeepsLeft(h, left, right) == Res(h, left, "")

\* The leaf branch: else: return right.
ExtendLeaf(h, left, right) == Res(h, right, "")

\* Seeded fault: the `right is None` branch missing, so that None raises.
ExtendNone_Raises(h, left, right) == Res(h, NoneV, "ValueError")

\* The dict branch with right None: return left.
ExtendNone(h, left, right) == Res(h, left, "")

RECURSIVE _extend(_, _, _, _)
RECURSIVE ExtendKeys(_, _, _, _, _, _)
\* for key in right.keys(), from the k-th key on: a key of left is merged
\* recursively, a new key takes right's value itself (no copy).
ExtendKeys(h, merged, left, right, k, deduplicate) ==
  IF k > NKeys THEN Res(h, merged, "")
  ELSE IF ~HasKey(h, right, k)
  THEN ExtendKeys(h, merged, left, right, k + 1, deduplicate)
  ELSE IF HasKey(h, left, k)
  THEN LET r == _extend(h, h[merged.n].e[k], h[right.n].e[k], deduplicate)
       IN IF r.err # "" THEN r
          ELSE ExtendKeys(SetItem(r.h, merged, k, r.v), merged, left, right,
                          k + 1, deduplicate)
  ELSE ExtendKeys(SetItem(h, merged, k, h[right.n].e[k]), merged, left, right,
                  k + 1, deduplicate)

_extend(h, left, right, deduplicate) ==
  IF IsSeq(h, left) THEN ExtendSeq(h, left, right, deduplicate)
  ELSE IF IsDict(h, left)
  THEN IF IsDict(h, right)
       THEN LET c == New(h, h[left.n])        \* merged = left.copy()
            IN ExtendKeys(c.h, c.v, left, right, 1, deduplicate)
       ELSE IF right = NoneV THEN ExtendNone(h, left, right)
       ELSE Res(h, NoneV, "ValueError")
  ELSE ExtendLeaf(h, left, right)

(***************************************************************************)
(* _replace (mergedata.py:47-58)                                           *)
(***************************************************************************)
RECURSIVE deepcopy(_, _)
RECURSIVE CopyElems(_, _, _)
CopyElems(h, vals, acc) ==
  IF vals = <<>> THEN [h |-> h, vs |-> acc]
  ELSE LET r == deepcopy(h, Head(vals))
       IN CopyElems(r.h, Tail(vals), Append(acc, r.v))

\* copy.deepcopy(val): scalars are returned as they are, a container is
\* rebuilt from copies of its entries.  The values copied here are subtrees
\* of one argument, which share nothing, so the memo plays no part.
deepcopy(h, v) ==
  IF ~IsRef(v) THEN Res(h, v, "")
  ELSE LET r == CopyElems(h, h[v.n].e, <<>>)
       IN New(r.h, Obj(h[v.n].cls, r.vs))

\* Seeded fault: right[:-1] in the place of right[:].
Slice_DropsLast(h, right) ==
  New(h, Obj(ClassOf(h, right), SubSeq(Elems(h, right), 1, Len(Elems(h, right)) - 1)))

\* right[:] : a new list with right's elements themselves (a shallow copy);
\* CPython returns a tuple itself for its full slice.
Slice(h, right) ==
  IF ClassOf(h, right) = "tuple" THEN Res(h, right, "")
  ELSE New(h, Obj("list", Elems(h, right)))

\* left[key] = copy.deepcopy(val), for a key that is not in left.
InstallNew(h, left, k, val) ==
  LET c == deepcopy(h, val) IN SetItem(c.h, left, k, c.v)

RECURSIVE _replace(_, _, _)
RECURSIVE ReplaceItems(_, _, _, _)
\* for key, val in right.items(), from the k-th key on.  `key in left` and
\* `left[key] = ...` need a dict: on an int or None `in` raises TypeError;
\* on a list or tuple (no element equals a str key) the test is False and
\* the item assignment, after the deepcopy, raises TypeError.
ReplaceItems(h, left, right, k) ==
  IF k > NKeys THEN Res(h, left, "")
  ELSE IF ~HasKey(h, right, k) THEN ReplaceItems(h, left, right, k + 1)
  ELSE IF IsSeq(h, left)
  THEN Res(deepcopy(h, h[right.n].e[k]).h, NoneV, "TypeError")
  ELSE IF ~IsDict(h, left) THEN Res(h, NoneV, "TypeError")
  ELSE IF HasKey(h, left, k)
  THEN LET r == _replace(h, h[left.n].e[k], h[right.n].e[k])
       IN IF r.err # "" THEN r
          ELSE ReplaceItems(SetItem(r.h, left, k, r.v), left, right, k + 1)
  ELSE ReplaceItems(InstallNew(h, left, k, h[right.n].e[k]), left, right, k + 1)

_replace(h, left, right) ==
  IF IsDict(h, right) THEN ReplaceItems(h, left, right, 1)
  ELSE IF IsSeq(h, right) THEN Slice(h, right)
  ELSE Res(h, right, "")

(***************************************************************************)
(* mergedata (mergedata.py:61-80)                                          *)
(***************************************************************************)
\* Seeded fault: `if override: merge = _replace` missing.
Merge_IgnoresOverride(h, left, right, ov) == _extend(h, left, right, TRUE)

\* merge = partial(_extend, deduplicate=True); if override: merge = _replace
Merge(h, left, right, ov) ==
  IF ov THEN _replace(h, left, right) ELSE _extend(h, left, right, TRUE)

\* Seeded fault: left = data[0], the accumulator is the first argument.
Construct_Aliases(h, first) == Res(h, first, "")

\* data[0].__class__(): an empty container of the first argument's class;
\* NoneType() is None.
Construct(h, first) ==
  IF ~IsRef(first) THEN Res(h, NoneV, "")
  ELSE IF IsDict(h, first) THEN New(h, EmptyDict)
  ELSE New(h, Obj(ClassOf(h, first), <<>>))

RECURSIVE Fold(_, _, _, _, _)
\* for right in data, from the j-th argument on.
Fold(h, acc, args, j, ov) ==
  IF j > Len(args) THEN Res(h, acc, "")
  ELSE IF Falsy(h, args[j]) THEN Fold(h, acc, args, j + 1, ov)
  ELSE LET r == Merge(h, acc, args[j], ov)
       IN IF r.err # "" THEN r ELSE Fold(r.h, r.v, args, j + 1, ov)

\* The whole call.
mergedata(h, args, ov) ==
  IF Len(args) = 0 THEN New(h, EmptyDict)
  ELSE LET c == Construct(h, args[1]) IN Fold(c.h, c.v, args, 1, ov)

(***************************************************************************)
(* The arguments of a call: trees of dicts, lists, ints and None, built by *)
(* the caller before the call.  A top-level argument is a dict, a list, a  *)
(* tuple or None (the signature's Dict, List, Tuple; None is what an empty *)
(* document parses to).                                                    *)
(***************************************************************************)
RECURSIVE SeqsOfSize(_, _)
\* The element lists of m nodes in all; tbl[k] is the set of the values of
\* exactly k nodes, for every k <= m.
SeqsOfSize(tbl, m) ==
  IF m = 0 THEN {<<>>}
  ELSE UNION {{<<v>> \o s : v \in tbl[k], s \in SeqsOfSize(tbl, m - k)} :
              k \in 1..m}

RECURSIVE EntriesOfSize(_, _, _)
\* The entries of a dict's last j keys, of m nodes in all.
EntriesOfSize(tbl, m, j) ==
  IF j = 0 THEN (IF m = 0 THEN {<<>>} ELSE {})
  ELSE {<<AbsentT>> \o s : s \in EntriesOfSize(tbl, m, j - 1)}
       \cup UNION {{<<v>> \o s : v \in tbl[k],
                                 s \in EntriesOfSize(tbl, m - k, j - 1)} :
                   k \in 1..m}

\* The values of exactly n nodes, from those of fewer.
ValuesOfSize(tbl, n) ==
  (IF n = 1 THEN {Leaf("int", x) : x \in Ints} \cup {NoneT} ELSE {})
  \cup {Node("list", s) : s \in SeqsOfSize(tbl, n - 1)}
  \cup {Node("dict", s) : s \in EntriesOfSize(tbl, n - 1, NKeys)}

RECURSIVE ValueTable(_)
ValueTable(tbl) ==
  IF Len(tbl) >= MaxNodes THEN tbl
  ELSE ValueTable(Append(tbl, ValuesOfSize(tbl, Len(tbl) + 1)))

Values == ValueTable(<<>>)

\* The top-level arguments of n nodes: a dict, a list, a tuple or None.
ItemsOfSize(n) ==
  {t \in Values[n] : t.cls # "int"}
  \cup {Node("tuple", s) : s \in SeqsOfSize(Values, n - 1)}

Items == [n \in 1..MaxNodes |-> ItemsOfSize(n)]

RECURSIVE Alloc(_, _)
RECURSIVE AllocElems(_, _, _)
AllocElems(h, ts, acc) ==
  IF ts = <<>> THEN [h |-> h, vs |-> acc]
  ELSE LET r == Alloc(h, Head(ts))
       IN AllocElems(r.h, Tail(ts), Append(acc, r.v))

\* The caller's construction of tree t: its containers become heap objects.
Alloc(h, t) ==
  IF t.cls \in {"int", "none", "absent"} THEN Res(h, [t |-> t.cls, n |-> t.n], "")
  ELSE LET r == AllocElems(h, t.e, <<>>)
       IN New(r.h, Obj(t.cls, r.vs))

(***************************************************************************)
(* The call as a state machine: one action per step of mergedata.          *)
(***************************************************************************)
VARIABLES
  heap,      \* the objects
  heap0,     \* the heap as the caller built it, before the call
  data,      \* the arguments (*data)
  override,  \* the policy flag
  pc,        \* "call", "loop", "done" (returned) or "raised"
  i,         \* the position of the for loop in data
  left,      \* the accumulator
  ret,       \* the value returned (Absent until the call returns)
  err,       \* the exception raised ("" for none)
  prev,      \* the accumulator's tree before the last merge
  last       \* the index of the argument merged last (0: none yet)

vars == <<heap, heap0, data, override, pc, i, left, ret, err, prev, last>>

RECURSIVE Passing(_, _, _, _)
\* The caller has built the arguments vs in heap h and may build more, of
\* at most `budget` nodes in all; `twice` passes the one argument twice.
Passing(h, vs, budget, twice) ==
  \/ /\ twice => Len(vs) = 1
     /\ heap = h
     /\ heap0 = h
     /\ data = IF twice THEN vs \o vs ELSE vs
  \/ \E k \in 1..budget : \E t \in Items[k] :
       LET r == Alloc(h, t)
       IN Passing(r.h, Append(vs, r.v), budget - k, twice)

\* A call of mergedata on any argument list of at most MaxNodes nodes, under
\* either policy, mergedata(A, A) included.
Init ==
  \E ov \in BOOLEAN, twice \in BOOLEAN :
    /\ Passing(<<>>, <<>>, MaxNodes, twice)
    /\ override = ov
    /\ pc = "call"
    /\ i = 1
    /\ left = NoneV
    /\ ret = Absent
    /\ err = ""
    /\ prev = AbsentT
    /\ last = 0

\* if len(data) == 0: return {}
ReturnEmpty ==
  /\ pc = "call"
  /\ Len(data) = 0
  /\ LET c == New(heap, EmptyDict)
     IN heap' = c.h /\ ret' = c.v /\ left' = c.v
  /\ pc' = "done"
  /\ UNCHANGED <<heap0, data, override, i, err, prev, last>>

\* left = data[0].__class__()
Start ==
  /\ pc = "call"
  /\ Len(data) > 0
  /\ LET c == Construct(heap, data[1])
     IN heap' = c.h /\ left' = c.v
  /\ pc' = "loop"
  /\ UNCHANGED <<heap0, data, override, i, ret, err, prev, last>>

\* if not right: continue
Skip ==
  /\ pc = "loop"
  /\ i <= Len(data)
  /\ Falsy(heap, data[i])
  /\ i' = i + 1
  /\ UNCHANGED <<heap, heap0, data, override, pc, left, ret, err, prev, last>>

\* left = merge(left, right), which may raise.
MergeStep ==
  /\ pc = "loop"
  /\ i <= Len(data)
  /\ ~Falsy(heap, data[i])
  /\ LET r == Merge(heap, left, data[i], override)
     IN /\ heap' = r.h
        /\ err' = r.err
        /\ IF r.err = ""
           THEN left' = r.v /\ pc' = "loop" /\ i' = i + 1
           ELSE pc' = "raised" /\ UNCHANGED <<left, i>>
  /\ prev' = Tree(heap, left)
  /\ last' = i
  /\ UNCHANGED <<heap0, data, override, ret>>

\* merge is partial(_extend, deduplicate=True)
ExtendStep ==
  /\ ~override
  /\ MergeStep

\* merge is _replace
ReplaceStep ==
  /\ override
  /\ MergeStep

\* return left
Return ==
  /\ pc = "loop"
  /\ i > Len(data)
  /\ ret' = left
  /\ pc' = "done"
  /\ UNCHANGED <<heap, heap0, data, override, i, left, err, prev, last>>

Next == ReturnEmpty \/ Start \/ Skip \/ ExtendStep \/ ReplaceStep \/ Return

Spec == Init /\ [][Next]_vars

(***************************************************************************)
(* Vocabulary of the properties: paths into trees, outcomes of calls.      *)
(***************************************************************************)
\* A path is a sequence of key positions; a tree of MaxNodes nodes nests
\* dicts less than MaxNodes deep.
Paths == UNION {[1..n -> 1..NKeys] : n \in 0..(MaxNodes - 1)}

RECURSIVE At(_, _)
\* The subtree of t at path p (AbsentT when the path leaves t's dicts).
At(t, p) ==
  IF p = <<>> THEN t
  ELSE IF t.cls = "dict" THEN At(t.e[Head(p)], Tail(p))
  ELSE AbsentT

IsSeqT(t) == t.cls \in {"list", "tuple"}

IsEmptyT(t) ==
  \/ t = NoneT
  \/ IsSeqT(t) /\ t.e = <<>>
  \/ t.cls = "dict" /\ \A k \in 1..NKeys : t.e[k] = AbsentT

\* The k-th argument as the caller passed it.
Arg(k) == Tree(heap0, data[k])

\* The accumulator now.
Acc == Tree(heap, left)

\* A merge has run and returned.
Merged == last > 0 /\ pc # "raised"

Finished == pc \in {"done", "raised"}

\* Every argument is a dict, a list or a tuple, as the signature has it.
ContainerArgs == \A k \in 1..Len(data) : IsRef(data[k])

\* What the call did: the exception, or the tree returned.
Final == [err |-> err, t |-> IF pc = "done" THEN Tree(heap, ret) ELSE AbsentT]

\* What a call of mergedata on args would do.
Outcome(args) ==
  LET r == mergedata(heap0, args, override)
  IN [err |-> r.err, t |-> IF r.err = "" THEN Tree(r.h, r.v) ELSE AbsentT]

RECURSIVE Kept(_, _, _)
\* The elements of rs[j..] equal neither to an element of ls nor to an
\* earlier element of rs.
Kept(ls, rs, j) ==
  IF j > Len(rs) THEN <<>>
  ELSE (IF (\E x \in 1..Len(ls) : ls[x] = rs[j]) \/ (\E y \in 1..(j - 1) : rs[y] = rs[j])
        THEN <<>> ELSE <<rs[j]>>) \o Kept(ls, rs, j + 1)

(***************************************************************************)
(* C1                                                                      *)
(***************************************************************************)
\* The accumulator holds a dict and the incoming item a value that is
\* neither a dict nor None, at one same path.
Conflict(acc, inc) ==
  \E p \in Paths :
    At(acc, p).cls = "dict" /\ At(inc, p).cls \notin {"dict", "none", "absent"}

\* C1: under Extend the call raises ValueError at a fold step if and only if
\* at that step some path (the root included) holds a dict in the accumulator
\* and a value that is neither a dict nor None in the incoming item; it
\* raises nothing else, and a call that raises returns no result.
C1_RaisesIffConflict ==
  ~override =>
    /\ last > 0 => ((pc = "raised") <=> Conflict(prev, Arg(last)))
    /\ pc = "raised" => last > 0 /\ err = "ValueError" /\ ret = Absent
    /\ pc # "raised" => err = ""

\* Extend has raised on a conflict below the root: both operands are dicts.
C1_Witness ==
  /\ ~override /\ pc = "raised"
  /\ prev.cls = "dict" /\ Arg(last).cls = "dict"

(***************************************************************************)
(* C2                                                                      *)
(***************************************************************************)
\* C2: under Replace a call on dicts, lists and tuples never fails.
C2_ReplaceNeverFails == (override /\ ContainerArgs) => pc # "raised"

(***************************************************************************)
(* C3                                                                      *)
(***************************************************************************)
RECURSIVE NonEmpty(_)
\* The arguments without the empty ones.
NonEmpty(args) ==
  IF args = <<>> THEN <<>>
  ELSE (IF IsEmptyT(Tree(heap0, Head(args))) THEN <<>> ELSE <<Head(args)>>)
       \o NonEmpty(Tail(args))

\* The arguments without the empty ones, except a first empty argument whose
\* type the first of the others does not have.
KeepFirstType(args) ==
  IF args = <<>> THEN <<>>
  ELSE LET rest == NonEmpty(args)
       IN IF /\ rest # <<>>
             /\ Tree(heap0, rest[1]).cls = Tree(heap0, args[1]).cls
          THEN rest
          ELSE <<args[1]>> \o NonEmpty(Tail(args))

\* C3 as stated: a call on dicts, lists and tuples, one of them not empty,
\* does what it would do on the arguments without the empty ones, wherever
\* they stand.
C3_EmptyItemsNoOp ==
  (Finished /\ ContainerArgs /\ NonEmpty(data) # <<>>) =>
    Final = Outcome(NonEmpty(data))

\* C3 amended: the call does what it would do without its empty arguments,
\* provided the first argument keeps its type (dict, list, tuple or None):
\* empty arguments after the first are no-ops, and so is an empty first
\* argument of the type of the next non-empty one.
C3_EmptyItemsNoOpKeepingFirstType ==
  Finished => Final = Outcome(KeepFirstType(data))

\* A call has returned a non-empty result past an empty argument.
C3_Witness ==
  /\ pc = "done" /\ ~IsEmptyT(Tree(heap, ret))
  /\ \E k \in 2..Len(data) : IsEmptyT(Arg(k))

(***************************************************************************)
(* C4                                                                      *)
(***************************************************************************)
RECURSIVE NoSeqs(_)
\* No list or tuple anywhere in a tree of dicts and scalars.
NoSeqs(t) ==
  /\ ~IsSeqT(t)
  /\ t.cls = "dict" => \A k \in 1..NKeys : NoSeqs(t.e[k])

RECURSIVE Compatible(_, _)
\* No shared key pairs a dict with a non-dict, recursively.
Compatible(a, b) ==
  \A k \in 1..NKeys :
    (a.e[k] # AbsentT /\ b.e[k] # AbsentT) =>
      /\ (a.e[k].cls = "dict") <=> (b.e[k].cls = "dict")
      /\ a.e[k].cls = "dict" => Compatible(a.e[k], b.e[k])

RECURSIVE Union(_, _)
\* The recursive right-biased union of two dicts.
Union(a, b) ==
  Node("dict",
       [k \in 1..NKeys |->
          IF b.e[k] = AbsentT THEN a.e[k]
          ELSE IF a.e[k] = AbsentT THEN b.e[k]
          ELSE IF a.e[k].cls = "dict" /\ b.e[k].cls = "dict"
               THEN Union(a.e[k], b.e[k])
          ELSE b.e[k]])

\* The call is mergedata(A, B) on two dicts the claim is about.
C4_Case ==
  /\ Len(data) = 2
  /\ Arg(1).cls = "dict" /\ Arg(2).cls = "dict"
  /\ NoSeqs(Arg(1)) /\ NoSeqs(Arg(2))
  /\ Compatible(Arg(1), Arg(2))

C5_ExtendAppendsUnseen ==
  (~override /\ Merged) =>
    \A p \in Paths :
      LET L == At(prev, p)
          R == At(Arg(last), p)
          M == At(Acc, p)
      IN (IsSeqT(L) /\ R.cls # "absent") =>
           /\ IsSeqT(M)
           /\ M.e = L.e \o Kept(L.e, IF IsSeqT(R) THEN R.e ELSE <<R>>, 1)

\* Extend has merged a sequence into a non-empty one and dropped an element.
C5_Witness ==
  /\ ~override /\ Merged
  /\ IsSeqT(prev) /\ prev.e # <<>> /\ IsSeqT(Arg(last))
  /\ Len(Acc.e) < Len(prev.e) + Len(Arg(last).e)

(***************************************************************************)
(* C6                                                                      *)
(***************************************************************************)
\* C6: after a merge under Replace, wherever the incoming item holds a
\* sequence, an int or None, the result holds that very value.
C6_ReplaceRightWins ==
  (override /\ Merged) =>
    \A p \in Paths :
      LET R == At(Arg(last), p)
      IN (IsSeqT(R) \/ R.cls \in {"int", "none"}) => At(Acc, p) = R

\* Replace has put a sequence in the place of another, non-empty one.
C6_Witness ==
  /\ override /\ Merged
  /\ IsSeqT(prev) /\ prev.e # <<>> /\ IsSeqT(Arg(last))
  /\ Acc # prev

(***************************************************************************)
(* C7                                                                      *)
(***************************************************************************)
\* The call is mergedata(A, A, override=True) on a dict, list or tuple.
C7_Case ==
  /\ override
  /\ Len(data) = 2
  /\ Arg(1) = Arg(2)
  /\ Arg(1).cls \in {"dict", "list", "tuple"}

\* C7: mergedata(A, A, override=True) returns a tree equal to A.
C7_ReplaceSelfIdempotent ==
  C7_Case =>
    /\ pc # "raised"
    /\ pc = "done" => Tree(heap, ret) = Arg(1)

\* The call has returned for a nested A.
C7_Witness ==
  /\ C7_Case /\ pc = "done"
  /\ \E x \in 1..Len(Arg(1).e) : Arg(1).e[x].cls \in {"dict", "list"}

(***************************************************************************)
(* C8                                                                      *)
(***************************************************************************)
\* C8: every object of the arguments holds what it held before the call,
\* while the call runs and after it has returned or raised.
C8_ArgumentsUnchanged == SubSeq(heap, 1, Len(heap0)) = heap0

\* Replace has returned a dict that its second merge changed in place.
C8_Witness ==
  /\ override /\ pc = "done" /\ last > 1
  /\ IsDict(heap, ret)
  /\ prev # Tree(heap, ret)

(***************************************************************************)
(* C9                                                                      *)
(***************************************************************************)
\* The call is mergedata(A) under Extend on a non-empty dict, list or tuple.
C9_Case ==
  /\ ~override /\ pc = "done"
  /\ Len(data) = 1
  /\ Arg(1).cls \in {"dict", "list", "tuple"} /\ ~IsEmptyT(Arg(1))

\* C9 as stated: mergedata(A) equals A.
C9_SingleItemUnchanged == C9_Case => Tree(heap, ret) = Arg(1)

\* C9 amended: mergedata(A) equals A for a non-empty dict A; for a non-empty
\* sequence A it is A without the elements equal to an earlier one, which is
\* A when A has no repeated elements.
C9_SingleItemFirstOccurrences ==
  C9_Case =>
    Tree(heap, ret) =
      IF IsSeqT(Arg(1)) THEN Node(Arg(1).cls, Kept(<<>>, Arg(1).e, 1))
      ELSE Arg(1)

\* mergedata(A) has returned for a sequence with a repeated element.
C9_Witness ==
  /\ C9_Case /\ IsSeqT(Arg(1))
  /\ \E x, y \in 1..Len(Arg(1).e) : x # y /\ Arg(1).e[x] = Arg(1).e[y]

(***************************************************************************)
(* C10                                                                     *)
(***************************************************************************)
\* C10: no dict or list reachable from the result of a call under Replace
\* is an object of the arguments.
C10_ReplaceResultAliasFree ==
  (override /\ pc = "done") =>
    \A a \in Reach(heap, ret) : heap[a].cls = "tuple" \/ a > Len(heap0)

====
